---- MODULE Spec2Model ----
(***************************************************************************)
(* Gradient-descent simulator (src/src/App.js): the numeric engine         *)
(* (calculateMSE, calculateGradientDetails), the step controller           *)
(* (performSingleStep, startSimulation, stopSimulation, the resets) and    *)
(* the animation timer (the useEffect of lines 131-138).                   *)
(*                                                                         *)
(* Numbers.  A JavaScript number is modelled as an exact rational          *)
(* [n |-> numerator, d |-> denominator] in lowest terms with d > 0, or as  *)
(* NaN ([n |-> 0, d |-> 0]).  Arithmetic is exact; a result whose          *)
(* numerator or denominator would leave the range -MaxMag..MaxMag is the   *)
(* value Over, which is never stored in the state: a step whose results    *)
(* are not representable is not taken by the model.                        *)
(*                                                                         *)
(* Strings.  A string is a sequence of one-character strings, so that      *)
(* parseFloat and toFixed are computed digit by digit.                     *)
(*                                                                         *)
(* Rendering.  Every handler runs against the values of the last render    *)
(* (its closure); React re-renders and runs the effect's cleanup and body  *)
(* before the next event is handled, so a handler together with the        *)
(* render it causes is one action.                                         *)
(***************************************************************************)
EXTENDS Integers, Sequences, FiniteSets, TLC

\* ----------------------------------------------------------------- bounds
\* Largest magnitude of a numerator or denominator the model computes with.
MaxMag == 1000000000
\* The slider is moved while the history holds at most this many records,
\* and in the terminal state.
MaxOverrideLen == 2
\* Number of timer handles; the handle of a fired or cleared timer is reused.
MaxTimers == 3
\* Largest dataset handed to an engine function exercised on its own.
MaxEngineLen == 2

\* ---------------------------------------------------------------- numbers
NaN == [n |-> 0, d |-> 0]
Over == [n |-> 1, d |-> 0]
Zero == [n |-> 0, d |-> 1]
FromInt(i) == [n |-> i, d |-> 1]
IsNumber(v) == v.d > 0

Abs(i) == IF i < 0 THEN -i ELSE i

RECURSIVE Gcd(_, _)
Gcd(a, b) == IF b = 0 THEN a ELSE Gcd(b, a % b)

Norm(n, d) == LET g == Gcd(Abs(n), d) IN [n |-> n \div g, d |-> d \div g]

\* a * b stays within -MaxMag..MaxMag
FitsMul(a, b) == a = 0 \/ b = 0 \/ Abs(a) <= MaxMag \div Abs(b)

Neg(p) == IF p.d = 0 THEN p ELSE [n |-> -p.n, d |-> p.d]

\* p * q of two JavaScript numbers
Mul(p, q) ==
    IF p = NaN \/ q = NaN THEN NaN
    ELSE IF p = Over \/ q = Over THEN Over
    ELSE LET g1 == Gcd(Abs(p.n), q.d)
             g2 == Gcd(Abs(q.n), p.d)
             n1 == p.n \div g1
             n2 == q.n \div g2
             d1 == p.d \div g2
             d2 == q.d \div g1
         IN  IF FitsMul(n1, n2) /\ FitsMul(d1, d2)
             THEN [n |-> n1 * n2, d |-> d1 * d2]
             ELSE Over

\* p + q of two JavaScript numbers
Add(p, q) ==
    IF p = NaN \/ q = NaN THEN NaN
    ELSE IF p = Over \/ q = Over THEN Over
    ELSE LET g  == Gcd(p.d, q.d)
             l1 == q.d \div g
             l2 == p.d \div g
         IN  IF FitsMul(p.n, l1) /\ FitsMul(q.n, l2) /\ FitsMul(p.d, l1)
                /\ Abs(p.n * l1) <= MaxMag - Abs(q.n * l2)
             THEN Norm(p.n * l1 + q.n * l2, p.d * l1)
             ELSE Over

Sub(p, q) == Add(p, Neg(q))

\* p / k for a count k (an array length): 0 / 0 is NaN
DivCount(p, k) ==
    IF k = 0 THEN NaN ELSE Mul(p, [n |-> 1, d |-> k])

\* ---------------------------------------------------------------- strings
DigitChars == <<"0", "1", "2", "3", "4", "5", "6", "7", "8", "9">>
IsDigit(c) == \E i \in 1..10 : DigitChars[i] = c
DigitVal(c) == (CHOOSE i \in 1..10 : DigitChars[i] = c) - 1

\* number of digit characters of s from position i on
RECURSIVE DigitRun(_, _)
DigitRun(s, i) ==
    IF i <= Len(s) /\ IsDigit(s[i]) THEN 1 + DigitRun(s, i + 1) ELSE 0

\* value of the digits s[i..i+k-1]
RECURSIVE DigitsVal(_, _, _)
DigitsVal(s, i, k) ==
    IF k = 0 THEN 0 ELSE DigitsVal(s, i, k - 1) * 10 + DigitVal(s[i + k - 1])

RECURSIVE Pow10(_)
Pow10(k) == IF k = 0 THEN 1 ELSE 10 * Pow10(k - 1)

\* parseFloat(string): the longest prefix [-]digits[.digits]; NaN when the
\* prefix holds no digit ("" and "NaN" both give NaN)
ParseFloat(s) ==
    LET neg   == Len(s) >= 1 /\ s[1] = "-"
        start == IF neg THEN 2 ELSE 1
        ni    == DigitRun(s, start)
        dot   == start + ni
        nf    == IF dot <= Len(s) /\ s[dot] = "." THEN DigitRun(s, dot + 1) ELSE 0
        mag   == DigitsVal(s, start, ni) * Pow10(nf) + DigitsVal(s, dot + 1, nf)
    IN  IF ni + nf = 0 THEN NaN
        ELSE Norm(IF neg THEN -mag ELSE mag, Pow10(nf))

\* decimal digits of a natural number
RECURSIVE NatToString(_)
NatToString(k) ==
    IF k < 10 THEN <<DigitChars[k + 1]>>
    ELSE Append(NatToString(k \div 10), DigitChars[(k % 10) + 1])

\* the f digits after the point of r / d (r < d), and the remainder left
RECURSIVE FracDigits(_, _, _)
FracDigits(r, d, f) ==
    IF f = 0 THEN [digits |-> <<>>, rem |-> r]
    ELSE LET rest == FracDigits((r * 10) % d, d, f - 1)
         IN  [digits |-> <<DigitChars[((r * 10) \div d) + 1]>> \o rest.digits,
              rem |-> rest.rem]

\* toFixed needs r * 10 and the scaled integer part within range
CanFix(v, f) ==
    v.d = 0 \/ (v.d <= MaxMag \div 10 /\ (Abs(v.n) \div v.d) < MaxMag \div Pow10(f))

\* Number.prototype.toFixed(f): the integer nearest to x * 10^f (the larger
\* one on a tie, on the magnitude), written with f digits after the point
ToFixed(v, f) ==
    IF v = NaN THEN <<"N", "a", "N">>
    ELSE LET a     == Abs(v.n)
             fd    == FracDigits(a % v.d, v.d, f)
             up    == IF 2 * fd.rem >= v.d THEN 1 ELSE 0
             scaled == (a \div v.d) * Pow10(f) + DigitsVal(fd.digits, 1, f) + up
             ip    == NatToString(scaled \div Pow10(f))
             fp    == NatToString(Pow10(f) + (scaled % Pow10(f)))
         IN  (IF v.n < 0 THEN <<"-">> ELSE <<>>) \o ip
                 \o (IF f = 0 THEN <<>> ELSE <<".">> \o Tail(fp))

\* parseFloat(x.toFixed(4))
Round4(v) == IF v = Over \/ ~CanFix(v, 4) THEN Over ELSE ParseFloat(ToFixed(v, 4))

\* shortest decimal of a number that has one with at most 6 places, as
\* Number::toString writes it (0 -> "0", 0.01 -> "0.01")
RECURSIVE DecimalPlaces(_, _)
DecimalPlaces(v, f) ==
    IF f >= 6 \/ Pow10(f) % v.d = 0 THEN f ELSE DecimalPlaces(v, f + 1)

NumberToString(v) ==
    IF v = NaN THEN <<"N", "a", "N">> ELSE ToFixed(v, DecimalPlaces(v, 0))

\* ------------------------------------------------------ values of inputs
\* The state of a controlled <input>: the number given to useState, or the
\* string e.target.value stored by the onChange handler.
NumRaw(v) == [isStr |-> FALSE, num |-> v, str |-> <<>>]
StrRaw(s) == [isStr |-> TRUE, num |-> NaN, str |-> s]

\* parseFloat(value): a number argument is converted to a string first
ParseFloatRaw(r) ==
    IF r.isStr THEN ParseFloat(r.str) ELSE ParseFloat(NumberToString(r.num))

Point(px, py) == [x |-> FromInt(px), y |-> FromInt(py)]

\* useState argument of dataPoints
InitialDataPoints ==
    << Point(20, 45), Point(22, 50), Point(24, 55), Point(25, 60), Point(28, 65),
       Point(30, 72), Point(31, 76), Point(33, 82), Point(34, 85), Point(35, 90) >>

\* mutant: resetAll installs an empty dataset
ResetAllDataPointsEmpty == <<>>

\* the dataset resetAll installs
ResetAllDataPoints ==
    << Point(1, 2), Point(2, 4), Point(3, 5), Point(4, 7), Point(5, 11),
       Point(6, 11), Point(7, 14), Point(8, 17), Point(9, 20), Point(10, 21) >>

InitialManualA == [n |-> 3, d |-> 2]
InitialLearningRate == NumRaw([n |-> 1, d |-> 100])
InitialInitialA == NumRaw(Zero)
iterations == 30

\* inputs the model feeds to the handlers
EditIndexes == {1}
Fields == {"x", "y"}
DataTexts == { <<>> }
InitialATexts == { <<"0", ".", "0", "1", "5", "6", "2", "5">> }
LearningRateTexts == { <<"0">> }
SliderTexts == { <<"2">> }

\* ------------------------------------------------------------ the engine
\* the reduce of calculateMSE over the first k points
RECURSIVE SumSquaredError(_, _, _)
SumSquaredError(a, data, k) ==
    IF k = 0 THEN Zero
    ELSE LET prediction == Mul(a, data[k].x)
             error      == Sub(prediction, data[k].y)
         IN  Add(SumSquaredError(a, data, k - 1), Mul(error, error))

\* mutant: the sum is not divided by the number of points
CalculateMSENotAveraged(a, data) == SumSquaredError(a, data, Len(data))

CalculateMSE(a, data) ==
    IF Len(data) = 0 THEN Zero
    ELSE DivCount(SumSquaredError(a, data, Len(data)), Len(data))

\* mutant: the chain-rule factor 2 is missing
PointGradientNoFactor(a, data, i) ==
    LET prediction   == Mul(a, data[i].x)
        errorTerm    == Sub(prediction, data[i].y)
        contribution == Mul(errorTerm, data[i].x)
    IN  [id |-> i, x |-> data[i].x, y |-> data[i].y, prediction |-> prediction,
         errorTerm |-> errorTerm, contribution |-> contribution]

PointGradient(a, data, i) ==
    LET prediction   == Mul(a, data[i].x)
        errorTerm    == Sub(prediction, data[i].y)
        contribution == Mul(Mul(FromInt(2), errorTerm), data[i].x)
    IN  [id |-> i, x |-> data[i].x, y |-> data[i].y, prediction |-> prediction,
         errorTerm |-> errorTerm, contribution |-> contribution]

RECURSIVE TotalGradientSum(_, _)
TotalGradientSum(pg, k) ==
    IF k = 0 THEN Zero ELSE Add(TotalGradientSum(pg, k - 1), pg[k].contribution)

CalculateGradientDetails(a, data) ==
    LET n  == Len(data)
        pg == [i \in 1..n |-> PointGradient(a, data, i)]
    IN  [finalGradient |-> DivCount(TotalGradientSum(pg, n), n), pointGradients |-> pg]

\* ------------------------------------------------------------- the state
VARIABLES
    dataPoints,     \* useState: sequence of [x, y]
    manualA,        \* useState: the current slope
    learningRate,   \* useState: number or input string
    initialA,       \* useState: number or input string
    gdHistory,      \* useState: sequence of [step, a, mse, gradient]
    isAnimating,    \* useState
    currentStep,    \* useState
    stepDetails,    \* useState: <<>> for null, <<detail>> otherwise
    animationRef,   \* useRef: the last timer handle, 0 for null
    timers,         \* the browser's pending timeouts: set of [id, closure]
    engineCall,     \* a call of an engine function: its arguments and result
    overridden,     \* history variable: slider changed since manualA was last set by the controller
    lastOp          \* history variable: the handler that ran last

vars == << dataPoints, manualA, learningRate, initialA, gdHistory, isAnimating,
           currentStep, stepDetails, animationRef, timers, engineCall,
           overridden, lastOp >>

\* the variables of the component
appVars == << dataPoints, manualA, learningRate, initialA, gdHistory, isAnimating,
              currentStep, stepDetails, animationRef, timers, overridden, lastOp >>

\* no engine function is being exercised on its own
NoCall == [fn |-> "none"]

\* what the last handler was: op its name, eff whether a step committed, ran
\* whether isAnimating held before it, cur whether the timer that fired was
\* the one animationRef held, val the number a slider change carried or,
\* for a committing step, the current slope held before the step
Op(o, e, r, c, v) == [op |-> o, eff |-> e, ran |-> r, cur |-> c, val |-> v]

\* the values performSingleStep closes over (its useCallback dependencies)
MakeClosure(h, ia, ma, cs, dp, lr) ==
    [gdHistory |-> h, initialA |-> ia, manualA |-> ma, currentStep |-> cs,
     dataPoints |-> dp, learningRate |-> lr]

Closure == MakeClosure(gdHistory, initialA, manualA, currentStep, dataPoints, learningRate)

\* ------------------------------------------------------ performSingleStep
\* mutant: the step always starts from the current slope
StartAFromCurrentSlope(c) == c.manualA

StartA(c) ==
    IF Len(c.gdHistory) > 0 THEN c.manualA ELSE ParseFloatRaw(c.initialA)

\* mutant: the index advances by two
NextStepIndexSkips(c) ==
    IF Len(c.gdHistory) > 0 THEN c.currentStep + 2 ELSE 0

\* mutant: the index is not advanced
NextStepIndexNotAdvanced(c) ==
    IF Len(c.gdHistory) > 0 THEN c.currentStep ELSE 0

NextStepIndex(c) ==
    IF Len(c.gdHistory) > 0 THEN c.currentStep + 1 ELSE 0

\* mutant: the step does not keep the records already appended
CurrentHistoryDropped(c) == <<>>

CurrentHistory(c) ==
    IF Len(c.gdHistory) > 0 THEN c.gdHistory ELSE <<>>

\* mutant: the bound is off by one
IsTerminalOffByOne(c) == NextStepIndex(c) > iterations + 1

\* mutant: the early return is missing
IsTerminalNever(c) == FALSE

\* mutant: the early return comes one step early
IsTerminalAtBound(c) == NextStepIndex(c) >= iterations

\* the early return of line 93
IsTerminal(c) == NextStepIndex(c) > iterations

\* mutant: gradient ascent
NextSlopeAscent(startA, lr, finalGradient) == Add(startA, Mul(lr, finalGradient))

\* line 110: startA - parseFloat(learningRate) * finalGradient
NextSlope(startA, lr, finalGradient) == Sub(startA, Mul(lr, finalGradient))

\* mutant: the record's mse is computed at the slope after the update
PerformSingleStepMSEAtNextSlope(c) ==
    LET startA == StartA(c)
        g      == CalculateGradientDetails(startA, c.dataPoints)
        nextA  == NextSlope(startA, ParseFloatRaw(c.learningRate), g.finalGradient)
        mse    == CalculateMSE(nextA, c.dataPoints)
        newHistoryEntry ==
            [step |-> NextStepIndex(c), a |-> Round4(startA), mse |-> Round4(mse),
             gradient |-> Round4(g.finalGradient)]
    IN  [gdHistory |-> Append(CurrentHistory(c), newHistoryEntry),
         stepDetails |-> << [pointGradients |-> g.pointGradients,
                             finalGradient |-> g.finalGradient,
                             currentA |-> startA] >>,
         currentStep |-> NextStepIndex(c),
         manualA |-> nextA]

\* lines 95-110: the record, the detail and the next slope of a step from c
PerformSingleStep(c) ==
    LET startA == StartA(c)
        mse    == CalculateMSE(startA, c.dataPoints)
        g      == CalculateGradientDetails(startA, c.dataPoints)
        newHistoryEntry ==
            [step |-> NextStepIndex(c), a |-> Round4(startA), mse |-> Round4(mse),
             gradient |-> Round4(g.finalGradient)]
        nextA  == NextSlope(startA, ParseFloatRaw(c.learningRate), g.finalGradient)
    IN  [gdHistory |-> Append(CurrentHistory(c), newHistoryEntry),
         stepDetails |-> << [pointGradients |-> g.pointGradients,
                             finalGradient |-> g.finalGradient,
                             currentA |-> startA] >>,
         currentStep |-> NextStepIndex(c),
         manualA |-> nextA]

\* every number the step o computed is within the range of the model
Representable(o) ==
    LET e == o.gdHistory[Len(o.gdHistory)]
    IN  e.a # Over /\ e.mse # Over /\ e.gradient # Over /\ o.manualA # Over

\* ------------------------------------------------------------ the timer
\* mutant: the timeout is not cleared
ClearTimeoutIgnored(id, ts) == ts

\* clearTimeout(id) on the pending timeouts ts
ClearTimeout(id, ts) == {t \in ts : t.id # id}

\* mutant: stopSimulation clears the timer and leaves isAnimating as it is
StopSimulationKeepsFlag(running, ts, ref) ==
    [isAnimating |-> running,
     timers |-> IF ref # 0 THEN ClearTimeout(ref, ts) ELSE ts]

\* stopSimulation: isAnimating and the pending timeouts after it
StopSimulation(running, ts, ref) ==
    [isAnimating |-> FALSE,
     timers |-> IF ref # 0 THEN ClearTimeout(ref, ts) ELSE ts]

\* mutant: performSingleStep is missing from the effect's dependencies
StepChangesDepsNever(c, o) == FALSE

\* A committing step from closure c to o changes performSingleStep, a
\* dependency of the effect: setGdHistory is given a new array.
StepChangesDeps(c, o) == o.gdHistory # c.gdHistory

\* the handle setTimeout returns: one no pending timer has
FreshTimerId(ts) ==
    CHOOSE i \in 1..MaxTimers :
        /\ \A t \in ts : t.id # i
        /\ \A j \in 1..(i - 1) : \E t \in ts : t.id = j

\* mutant: the effect's body schedules nothing
RunEffectClearsOnly(depsChanged, running, c, ts, ref) ==
    IF ~depsChanged THEN [timers |-> ts, ref |-> ref]
    ELSE [timers |-> ClearTimeout(ref, ts), ref |-> ref]

\* mutant: the handle setTimeout returns is not stored in animationRef
RunEffectHandleDropped(depsChanged, running, c, ts, ref) ==
    IF ~depsChanged THEN [timers |-> ts, ref |-> ref]
    ELSE LET cleaned == ClearTimeout(ref, ts)
         IN  IF running
             THEN [timers |-> cleaned \cup {[id |-> FreshTimerId(cleaned), closure |-> c]},
                   ref |-> ref]
             ELSE [timers |-> cleaned, ref |-> ref]

\* The useEffect of lines 131-138 after a render: when isAnimating or
\* performSingleStep changed, the previous cleanup clears the referenced
\* timer and the body schedules a new one while isAnimating.
RunEffect(depsChanged, running, c, ts, ref) ==
    IF ~depsChanged THEN [timers |-> ts, ref |-> ref]
    ELSE LET cleaned == ClearTimeout(ref, ts)
         IN  IF running
             THEN LET id == FreshTimerId(cleaned)
                  IN  [timers |-> cleaned \cup {[id |-> id, closure |-> c]}, ref |-> id]
             ELSE [timers |-> cleaned, ref |-> ref]

\* ------------------------------------------------------------------ Init
Init ==
    /\ dataPoints = InitialDataPoints
    /\ manualA = InitialManualA
    /\ learningRate = InitialLearningRate
    /\ initialA = InitialInitialA
    /\ gdHistory = <<>>
    /\ isAnimating = FALSE
    /\ currentStep = 0
    /\ stepDetails = <<>>
    /\ animationRef = 0
    /\ timers = {}
    /\ engineCall = NoCall
    /\ overridden = FALSE
    /\ lastOp = Op("init", FALSE, FALSE, FALSE, Zero)

\* --------------------------------------------------------------- actions
\* the state a committing performSingleStep sets (o) and the render after
\* it; ts is the set of timers pending when the step runs
CommitStep(c, o, ts) ==
    LET nc == MakeClosure(o.gdHistory, initialA, o.manualA, o.currentStep,
                          dataPoints, learningRate)
        e  == RunEffect(StepChangesDeps(c, o), isAnimating, nc, ts, animationRef)
    IN  /\ Representable(o)
        /\ gdHistory' = o.gdHistory
        /\ stepDetails' = o.stepDetails
        /\ currentStep' = o.currentStep
        /\ manualA' = o.manualA
        /\ timers' = e.timers
        /\ animationRef' = e.ref
        /\ overridden' = FALSE
        /\ UNCHANGED <<engineCall, dataPoints, learningRate, initialA, isAnimating>>

\* the step button (disabled while isAnimating)
ManualStep ==
    /\ ~isAnimating
    /\ IF IsTerminal(Closure)
       THEN /\ lastOp' = Op("step", FALSE, isAnimating, FALSE, Zero)
            /\ UNCHANGED <<engineCall, dataPoints, manualA, learningRate, initialA, gdHistory,
                           isAnimating, currentStep, stepDetails, animationRef,
                           timers, overridden>>
       ELSE /\ CommitStep(Closure, PerformSingleStep(Closure), timers)
            /\ lastOp' = Op("step", TRUE, isAnimating, FALSE, manualA)

\* a pending timeout fires and calls the performSingleStep it closed over
TimerFire ==
    \E t \in timers :
        IF IsTerminal(t.closure)
        THEN /\ timers' = timers \ {t}
             /\ lastOp' = Op("tick", FALSE, isAnimating, t.id = animationRef, Zero)
             /\ UNCHANGED <<engineCall, dataPoints, manualA, learningRate, initialA, gdHistory,
                            isAnimating, currentStep, stepDetails, animationRef,
                            overridden>>
        ELSE /\ CommitStep(t.closure, PerformSingleStep(t.closure), timers \ {t})
             /\ lastOp' = Op("tick", TRUE, isAnimating, t.id = animationRef, manualA)

\* the run button: startSimulation
StartSimulation ==
    IF isAnimating
    THEN LET st == StopSimulation(isAnimating, timers, animationRef)
             e  == RunEffect(st.isAnimating # isAnimating, st.isAnimating, Closure,
                             st.timers, animationRef)
         IN  /\ isAnimating' = st.isAnimating
             /\ timers' = e.timers
             /\ animationRef' = e.ref
             /\ lastOp' = Op("toggle", FALSE, TRUE, FALSE, Zero)
             /\ UNCHANGED <<engineCall, dataPoints, manualA, learningRate, initialA, gdHistory,
                            currentStep, stepDetails, overridden>>
    ELSE LET idle == Len(gdHistory) = 0
             ma   == IF idle THEN ParseFloatRaw(initialA) ELSE manualA
             cs   == IF idle THEN 0 ELSE currentStep
             nc   == MakeClosure(gdHistory, initialA, ma, cs, dataPoints, learningRate)
             e    == RunEffect(TRUE, TRUE, nc, timers, animationRef)
         IN  /\ manualA' = ma
             /\ currentStep' = cs
             /\ isAnimating' = TRUE
             /\ timers' = e.timers
             /\ animationRef' = e.ref
             /\ overridden' = IF idle THEN FALSE ELSE overridden
             /\ lastOp' = Op("toggle", FALSE, FALSE, FALSE, Zero)
             /\ UNCHANGED <<engineCall, dataPoints, learningRate, initialA, gdHistory,
                            stepDetails>>

\* the range slider's onChange (lines 305-308)
SliderChange(text) ==
    /\ Len(gdHistory) <= MaxOverrideLen \/ IsTerminal(Closure)
    /\ LET v  == ParseFloat(text)
           st == StopSimulation(isAnimating, timers, animationRef)
           nc == MakeClosure(gdHistory, initialA, v, currentStep, dataPoints, learningRate)
           e  == RunEffect(st.isAnimating # isAnimating \/ v # manualA, st.isAnimating,
                           nc, st.timers, animationRef)
       IN  /\ isAnimating' = st.isAnimating
           /\ manualA' = v
           /\ timers' = e.timers
           /\ animationRef' = e.ref
           /\ overridden' = TRUE
           /\ lastOp' = Op("override", FALSE, isAnimating, FALSE, v)
           /\ UNCHANGED <<engineCall, dataPoints, learningRate, initialA, gdHistory,
                          currentStep, stepDetails>>

\* mutant: the reset sets the slope to 0
ResetSlopeZero(closedInitialA) == Zero

\* the slope resetSimulation sets: parseFloat of the initialA it closed over
ResetSlope(closedInitialA) == ParseFloatRaw(closedInitialA)

\* mutant: the reset leaves the step detail in place
ResetSimulationKeepsDetails(dp, ia, lr, name) ==
    LET ma == ResetSlope(initialA)
        st == StopSimulation(isAnimating, timers, animationRef)
        nc == MakeClosure(<<>>, ia, ma, 0, dp, lr)
        e  == RunEffect(TRUE, st.isAnimating, nc, st.timers, animationRef)
    IN  /\ dataPoints' = dp
        /\ initialA' = ia
        /\ learningRate' = lr
        /\ gdHistory' = <<>>
        /\ stepDetails' = stepDetails
        /\ isAnimating' = st.isAnimating
        /\ currentStep' = 0
        /\ manualA' = ma
        /\ timers' = e.timers
        /\ animationRef' = e.ref
        /\ overridden' = FALSE
        /\ lastOp' = Op(name, FALSE, isAnimating, FALSE, Zero)
        /\ UNCHANGED engineCall

\* resetSimulation, called by a handler that has also set dataPoints,
\* initialA and learningRate to dp, ia and lr
ResetSimulation(dp, ia, lr, name) ==
    LET ma == ResetSlope(initialA)
        st == StopSimulation(isAnimating, timers, animationRef)
        nc == MakeClosure(<<>>, ia, ma, 0, dp, lr)
        e  == RunEffect(TRUE, st.isAnimating, nc, st.timers, animationRef)
    IN  /\ dataPoints' = dp
        /\ initialA' = ia
        /\ learningRate' = lr
        /\ gdHistory' = <<>>
        /\ stepDetails' = <<>>
        /\ isAnimating' = st.isAnimating
        /\ currentStep' = 0
        /\ manualA' = ma
        /\ timers' = e.timers
        /\ animationRef' = e.ref
        /\ overridden' = FALSE
        /\ lastOp' = Op(name, FALSE, isAnimating, FALSE, Zero)
        /\ UNCHANGED engineCall

\* parseFloat(value) || 0
CoerceCoordinate(text) ==
    LET v == ParseFloat(text) IN IF v = NaN \/ v = Zero THEN Zero ELSE v

HandleDataChange(index, field, text) ==
    LET newData == [dataPoints EXCEPT ![index][field] = CoerceCoordinate(text)]
    IN  ResetSimulation(newData, initialA, learningRate, "handleDataChange")

InitialAChange(text) ==
    ResetSimulation(dataPoints, StrRaw(text), learningRate, "setInitialA")

LearningRateChange(text) ==
    ResetSimulation(dataPoints, initialA, StrRaw(text), "setLearningRate")

ResetButton ==
    ResetSimulation(dataPoints, initialA, learningRate, "resetSimulation")

ResetAll ==
    ResetSimulation(ResetAllDataPoints, NumRaw(Zero), learningRate, "resetAll")

Next ==
    \/ ManualStep
    \/ TimerFire
    \/ StartSimulation
    \/ \E text \in SliderTexts : SliderChange(text)
    \/ \E index \in EditIndexes, field \in Fields, text \in DataTexts :
           HandleDataChange(index, field, text)
    \/ \E text \in InitialATexts : InitialAChange(text)
    \/ \E text \in LearningRateTexts : LearningRateChange(text)
    \/ ResetButton
    \/ ResetAll

Spec == Init /\ [][Next]_vars

\* the state after the learning rate input is set to "0" in the initial
\* state: from here every number a step computes is within range
LiveInit ==
    /\ dataPoints = InitialDataPoints
    /\ manualA = ParseFloatRaw(InitialInitialA)
    /\ learningRate = StrRaw(<<"0">>)
    /\ initialA = InitialInitialA
    /\ gdHistory = <<>>
    /\ isAnimating = FALSE
    /\ currentStep = 0
    /\ stepDetails = <<>>
    /\ animationRef = 0
    /\ timers = {}
    /\ engineCall = NoCall
    /\ overridden = FALSE
    /\ lastOp = Op("setLearningRate", FALSE, FALSE, FALSE, Zero)

\* the run and the events that interrupt it, on the fixed dataset
LiveNext ==
    \/ ManualStep
    \/ TimerFire
    \/ StartSimulation
    \/ \E text \in SliderTexts : SliderChange(text)
    \/ \E text \in InitialATexts : InitialAChange(text)
    \/ ResetButton

\* A scheduled timeout fires after its delay unless it is cleared: weak
\* fairness of TimerFire, WF_vars(TimerFire), written out with the enabling
\* condition of TimerFire (a timer is pending; under LiveSpec its step is
\* always within range, see TimersCanFire).
TimerFairness == ([]<>(timers = {})) \/ ([]<><<TimerFire>>_vars)

LiveSpec == LiveInit /\ [][LiveNext]_vars /\ TimerFairness

\* what a number input hands to its onChange handler when the field is
\* cleared or holds no number: the empty string
NonNumericTexts == { <<>> }

\* the controller driven by non-numeric input in the three kinds of field
CoerceNext ==
    \/ ManualStep
    \/ TimerFire
    \/ StartSimulation
    \/ \E index \in EditIndexes, field \in Fields, text \in NonNumericTexts :
           HandleDataChange(index, field, text)
    \/ \E text \in NonNumericTexts : InitialAChange(text)
    \/ \E text \in NonNumericTexts : LearningRateChange(text)

CoerceSpec == Init /\ [][CoerceNext]_vars

\* ---------------------------------------- the engine functions on their own
\* arguments of calculateMSE and calculateGradientDetails: slopes, and
\* datasets of at most MaxEngineLen points with integer coordinates
EngineSlopes ==
    { Zero, FromInt(1), FromInt(2), FromInt(-1), [n |-> 1, d |-> 2],
      [n |-> -3, d |-> 2], [n |-> 7, d |-> 4] }
EnginePoints == { Point(1, 2), Point(2, 4), Point(0, 3), Point(-2, 1) }
EngineDatasets ==
    UNION { [1..k -> EnginePoints] : k \in 0..MaxEngineLen }

EngineInit ==
    /\ dataPoints = InitialDataPoints
    /\ manualA = InitialManualA
    /\ learningRate = InitialLearningRate
    /\ initialA = InitialInitialA
    /\ gdHistory = <<>>
    /\ isAnimating = FALSE
    /\ currentStep = 0
    /\ stepDetails = <<>>
    /\ animationRef = 0
    /\ timers = {}
    /\ overridden = FALSE
    /\ lastOp = Op("init", FALSE, FALSE, FALSE, Zero)
    /\ engineCall \in { [fn |-> "none", a |-> a, data |-> data] :
                            a \in EngineSlopes, data \in EngineDatasets }

CallCalculateMSE ==
    /\ engineCall.fn = "none"
    /\ engineCall' = [fn |-> "calculateMSE", a |-> engineCall.a,
                      data |-> engineCall.data,
                      result |-> CalculateMSE(engineCall.a, engineCall.data)]
    /\ UNCHANGED appVars

CallCalculateGradientDetails ==
    /\ engineCall.fn = "none"
    /\ engineCall' = [fn |-> "calculateGradientDetails", a |-> engineCall.a,
                      data |-> engineCall.data,
                      result |-> CalculateGradientDetails(engineCall.a, engineCall.data)]
    /\ UNCHANGED appVars

EngineNext == CallCalculateMSE \/ CallCalculateGradientDetails

EngineSpec == EngineInit /\ [][EngineNext]_vars

\* every pending timer can fire
TimersCanFire ==
    \A t \in timers :
        IsTerminal(t.closure) \/ Representable(PerformSingleStep(t.closure))

\* ---------------------------------------------------------------- claims
ResetOps == {"handleDataChange", "setInitialA", "setLearningRate",
             "resetSimulation", "resetAll"}
StepOps == {"step", "tick"}

\* the slope the last completed step produced, from the exposed detail
LastStepSlope ==
    Sub(stepDetails[1].currentA,
        Mul(ParseFloatRaw(learningRate), stepDetails[1].finalGradient))

\* C1: in every reachable state the i-th record of the history (0-based)
\* has step = i.
C1_HistoryIndexedByStep ==
    \A i \in 1..Len(gdHistory) : gdHistory[i].step = i - 1

C1_Witness ==
    /\ Len(gdHistory) = 3
    /\ lastOp.op = "step" /\ lastOp.eff

\* C2: after every reset trigger the history is empty, currentStep is 0,
\* the run is off and the current slope is the initial slope in force after
\* the trigger.
C2_ResetRestoresInitialSlope ==
    lastOp.op \in ResetOps =>
        /\ gdHistory = <<>>
        /\ currentStep = 0
        /\ ~isAnimating
        /\ manualA = ParseFloatRaw(initialA)

\* C3: a committing step taken with a non-empty history starts from the
\* current slope, appends exactly the record [currentStep + 1, round4(slope),
\* round4(MSE), round4(gradient)], sets currentStep to that index and the
\* current slope to slope - learningRate * gradient.
C3_StepAppendsRecordAndDescends ==
    [][ (lastOp'.op \in StepOps /\ lastOp'.eff /\ Len(gdHistory) > 0) =>
          LET g == CalculateGradientDetails(manualA, dataPoints).finalGradient
          IN  /\ gdHistory' = Append(gdHistory,
                     [step |-> currentStep + 1, a |-> Round4(manualA),
                      mse |-> Round4(CalculateMSE(manualA, dataPoints)),
                      gradient |-> Round4(g)])
              /\ currentStep' = currentStep + 1
              /\ manualA' = Sub(manualA, Mul(ParseFloatRaw(learningRate), g)) ]_vars

C3_Witness ==
    /\ lastOp.op = "tick" /\ lastOp.eff
    /\ Len(gdHistory) >= 2
    /\ manualA # stepDetails[1].currentA
    /\ gdHistory[Len(gdHistory)].a # Zero

\* C4: once the history holds iterations + 1 records, a further step (by the
\* button or by the timer) and a run toggle leave the history, currentStep
\* and the current slope unchanged.
C4_TerminalStepIsNoOp ==
    [][ (Len(gdHistory) = iterations + 1 /\ lastOp'.op \in StepOps \cup {"toggle"}) =>
          UNCHANGED <<gdHistory, currentStep, manualA>> ]_vars

C4_Witness ==
    /\ Len(gdHistory) = iterations + 1
    /\ lastOp.op = "step" /\ ~lastOp.eff

\* C5: in every reachable state the history holds at most iterations + 1
\* records.
C5_HistoryBounded == Len(gdHistory) <= iterations + 1

C5_Witness ==
    /\ Len(gdHistory) = iterations + 1
    /\ lastOp.op = "tick" /\ lastOp.eff
    /\ gdHistory[iterations + 1].step = iterations

\* C6: a slider change stops the run, leaves no timer pending, sets the
\* current slope to the value given and leaves the history and currentStep
\* unchanged.
C6_OverrideStopsAndKeepsHistory ==
    [][ lastOp'.op = "override" =>
          /\ ~isAnimating'
          /\ timers' = {}
          /\ manualA' = lastOp'.val
          /\ \E text \in SliderTexts : lastOp'.val = ParseFloat(text)
          /\ UNCHANGED <<gdHistory, currentStep>> ]_vars

C6_Witness ==
    /\ lastOp.op = "override" /\ lastOp.ran
    /\ Len(gdHistory) > 0
    /\ manualA # LastStepSlope

\* C7: a timer step commits only while the run is on and only from the
\* timer animationRef holds, so a step that was scheduled before a stop
\* never commits.
C7_NoCommitAfterStop ==
    [][ (lastOp'.op = "tick" /\ lastOp'.eff) => (isAnimating /\ lastOp'.cur) ]_vars

C7_Witness ==
    /\ lastOp.op = "toggle" /\ lastOp.ran
    /\ ~isAnimating
    /\ timers = {}
    /\ Len(gdHistory) \in 1..iterations

\* C8: in every reachable state at most one timer is pending.
C8_AtMostOneTimer == Cardinality(timers) <= 1

C8_Witness ==
    /\ Cardinality(timers) = 1
    /\ lastOp.op = "tick" /\ lastOp.eff
    /\ \A t \in timers : t.id = animationRef /\ t.closure = Closure

\* C9: while the run is on, under fair firing of the timer, either the run
\* is switched off or the history reaches iterations + 1 records and no
\* timer remains pending.
RunEnded == Len(gdHistory) = iterations + 1 /\ timers = {}

C9_RunReachesTerminal == isAnimating ~> (~isAnimating \/ RunEnded)

C9_Witness ==
    /\ isAnimating
    /\ RunEnded
    /\ lastOp.op = "tick" /\ ~lastOp.eff

C11_FirstStepStartsFromInitialSlope ==
    [][ (lastOp'.op \in StepOps /\ lastOp'.eff /\ Len(gdHistory) = 0) =>
          LET s0 == ParseFloatRaw(initialA)
              g  == CalculateGradientDetails(s0, dataPoints).finalGradient
          IN  /\ gdHistory' = << [step |-> 0, a |-> Round4(s0),
                                  mse |-> Round4(CalculateMSE(s0, dataPoints)),
                                  gradient |-> Round4(g)] >>
              /\ currentStep' = 0
              /\ stepDetails'[1].currentA = s0
              /\ manualA' = Sub(s0, Mul(ParseFloatRaw(learningRate), g)) ]_vars

\* a first step taken right after the slider was moved while idle
C11_Witness ==
    /\ lastOp.op = "step" /\ lastOp.eff
    /\ Len(gdHistory) = 1
    /\ lastOp.val \in {ParseFloat(text) : text \in SliderTexts}
    /\ lastOp.val # ParseFloatRaw(initialA)
    /\ stepDetails[1].currentA = ParseFloatRaw(initialA)

\* C12: every transition other than a reset leaves the history unchanged or
\* appends exactly one record at its end, keeping every earlier record.
C12_HistoryAppendOnly ==
    [][ lastOp'.op \notin ResetOps =>
          \/ gdHistory' = gdHistory
          \/ /\ Len(gdHistory') = Len(gdHistory) + 1
             /\ SubSeq(gdHistory', 1, Len(gdHistory)) = gdHistory ]_vars

C12_Witness ==
    /\ lastOp.op = "step" /\ lastOp.eff
    /\ Len(gdHistory) = 2
    /\ gdHistory[1].step = 0 /\ gdHistory[2].step = 1
    /\ gdHistory[1].a # gdHistory[2].a

\* the controller states as the specification defines them, for a history h
\* and a step counter cs
SpecIdle(h, cs) == Len(h) = 0
SpecStepping(h, cs) == 0 < cs /\ cs < iterations + 1
SpecTerminal(h, cs) == cs > iterations

\* C13 as stated: every state is Idle (history empty), Stepping
\* (0 < currentStep < iterations + 1) or Terminal (currentStep > iterations),
\* and the step at which the next index exceeds iterations moves the
\* controller from Stepping to Terminal.
C13_ThreeControllerStates ==
    [][ /\ SpecIdle(gdHistory, currentStep) \/ SpecStepping(gdHistory, currentStep)
           \/ SpecTerminal(gdHistory, currentStep)
        /\ SpecIdle(gdHistory', currentStep') \/ SpecStepping(gdHistory', currentStep')
           \/ SpecTerminal(gdHistory', currentStep')
        /\ (lastOp'.op \in StepOps /\ IsTerminal(Closure)) =>
              /\ SpecStepping(gdHistory, currentStep)
              /\ SpecTerminal(gdHistory', currentStep') ]_vars

\* the controller states the code has: Stepping begins with currentStep = 0
\* and Terminal is the state whose next index would exceed iterations
Idle(h, cs) == Len(h) = 0
Stepping(h, cs) == Len(h) > 0 /\ 0 <= cs /\ cs < iterations
Terminal(h, cs) == Len(h) = iterations + 1 /\ cs = iterations

\* C13 amended: every state is Idle (history empty), Stepping (history
\* non-empty, 0 <= currentStep < iterations) or Terminal (iterations + 1
\* records, currentStep = iterations); the step that records step iterations
\* moves the controller from Stepping to Terminal, and a step at which the
\* next index exceeds iterations is taken in Terminal and stays there.
C13_ThreeControllerStatesFromZero ==
    [][ /\ Idle(gdHistory, currentStep) \/ Stepping(gdHistory, currentStep)
           \/ Terminal(gdHistory, currentStep)
        /\ Idle(gdHistory', currentStep') \/ Stepping(gdHistory', currentStep')
           \/ Terminal(gdHistory', currentStep')
        /\ (lastOp'.op \in StepOps /\ lastOp'.eff /\ currentStep' = iterations) =>
              /\ Stepping(gdHistory, currentStep)
              /\ Terminal(gdHistory', currentStep')
        /\ (lastOp'.op \in StepOps /\ ~lastOp'.eff) =>
              /\ Terminal(gdHistory, currentStep)
              /\ Terminal(gdHistory', currentStep') ]_vars

C13_Witness ==
    /\ lastOp.op = "step" /\ lastOp.eff
    /\ Terminal(gdHistory, currentStep)
    /\ ~isAnimating

\* C14: after non-numeric input every stored coordinate is a number, and
\* no not-a-number value appears in the current slope or in a record of the
\* history.
C14_NoNaNAfterNonNumericInput ==
    /\ \A i \in 1..Len(dataPoints) :
           dataPoints[i].x # NaN /\ dataPoints[i].y # NaN
    /\ manualA # NaN
    /\ \A i \in 1..Len(gdHistory) :
           gdHistory[i].a # NaN /\ gdHistory[i].mse # NaN /\ gdHistory[i].gradient # NaN

\* C15: in every reachable state the dataset holds at least one point.
C15_DatasetNonEmpty == Len(dataPoints) > 0

\* a coordinate edit made after a reset to the default dataset
C15_Witness ==
    /\ lastOp.op = "handleDataChange"
    /\ Len(dataPoints) = Len(ResetAllDataPoints)
    /\ dataPoints # ResetAllDataPoints
    /\ \A i \in 2..Len(dataPoints) : dataPoints[i] = ResetAllDataPoints[i]

\* Integer reference values for a slope p/q and points with integer
\* coordinates: the residual of point k scaled by q, and the sums of the
\* scaled squared residuals and of the scaled contributions.
ScaledResidual(a, data, k) == a.n * data[k].x.n - a.d * data[k].y.n

RECURSIVE ScaledSquares(_, _, _)
ScaledSquares(a, data, k) ==
    IF k = 0 THEN 0
    ELSE ScaledSquares(a, data, k - 1)
         + ScaledResidual(a, data, k) * ScaledResidual(a, data, k)

RECURSIVE ScaledContributions(_, _, _)
ScaledContributions(a, data, k) ==
    IF k = 0 THEN 0
    ELSE ScaledContributions(a, data, k - 1)
         + 2 * ScaledResidual(a, data, k) * data[k].x.n

\* the rational v equals num / den (den > 0)
EqualsRatio(v, num, den) == v.d > 0 /\ v.n * den = v.d * num

\* C16: calculateMSE(a, data) is the mean over the points of (a*x - y)^2
\* for a non-empty dataset and 0 for the empty one, is never negative, and
\* is 4 for a = 0 and the single point (1, 2).
C16_MSEIsMeanOfSquaredErrors ==
    engineCall.fn = "calculateMSE" =>
        LET a == engineCall.a
            data == engineCall.data
            n == Len(data)
            r == engineCall.result
        IN  /\ n = 0 => r = Zero
            /\ n > 0 => EqualsRatio(r, ScaledSquares(a, data, n), a.d * a.d * n)
            /\ r.d > 0 /\ r.n >= 0
            /\ (a = Zero /\ data = <<Point(1, 2)>>) => r = FromInt(4)

C16_Witness ==
    /\ engineCall.fn = "calculateMSE"
    /\ engineCall.a = Zero
    /\ engineCall.data = <<Point(1, 2)>>
    /\ engineCall.result = FromInt(4)

\* C17: for a non-empty dataset calculateGradientDetails returns one entry
\* per point in dataset order with id = position (from 1), the point's x
\* and y, prediction = a*x, errorTerm = a*x - y and contribution =
\* 2*errorTerm*x, and finalGradient times the number of points is the sum of
\* the contributions; it is -4 for a = 0 and the single point (1, 2), and 0
\* when the line fits every point.
C17_GradientDetailsPerPoint ==
    (engineCall.fn = "calculateGradientDetails" /\ Len(engineCall.data) > 0) =>
        LET a == engineCall.a
            data == engineCall.data
            n == Len(data)
            pg == engineCall.result.pointGradients
            g == engineCall.result.finalGradient
        IN  /\ DOMAIN pg = 1..n
            /\ \A i \in 1..n :
                   /\ pg[i].id = i
                   /\ pg[i].x = data[i].x /\ pg[i].y = data[i].y
                   /\ EqualsRatio(pg[i].prediction, a.n * data[i].x.n, a.d)
                   /\ EqualsRatio(pg[i].errorTerm, ScaledResidual(a, data, i), a.d)
                   /\ EqualsRatio(pg[i].contribution,
                                  2 * ScaledResidual(a, data, i) * data[i].x.n, a.d)
            /\ EqualsRatio(g, ScaledContributions(a, data, n), a.d * n)
            /\ Mul(g, FromInt(n)) = TotalGradientSum(pg, n)
            /\ (a = Zero /\ data = <<Point(1, 2)>>) => g = FromInt(-4)
            /\ (\A i \in 1..n : ScaledResidual(a, data, i) = 0) => g = Zero

\* two points, both fitted exactly by the slope 2
C17_Witness ==
    /\ engineCall.fn = "calculateGradientDetails"
    /\ engineCall.a = FromInt(2)
    /\ engineCall.data = <<Point(1, 2), Point(2, 4)>>
    /\ engineCall.result.finalGradient = Zero
    /\ engineCall.result.pointGradients[2].id = 2

\* C18 as stated: for every record of the history, calculateMSE and
\* calculateGradientDetails at the record's stored a, on the same dataset,
\* give the record's mse and gradient after rounding to 4 decimals.
C18_RecordRoundTrip ==
    \A i \in 1..Len(gdHistory) :
        /\ Round4(CalculateMSE(gdHistory[i].a, dataPoints)) = gdHistory[i].mse
        /\ Round4(CalculateGradientDetails(gdHistory[i].a, dataPoints).finalGradient)
               = gdHistory[i].gradient

\* C18 amended: every committing step appends a record whose a is the
\* 4-decimal rounding of the step's start slope (the currentA of the exposed
\* detail) and whose mse and gradient are the 4-decimal roundings of
\* calculateMSE and calculateGradientDetails at that unrounded start slope
\* on the same dataset.
C18_RecordRoundTripAtStartSlope ==
    [][ (lastOp'.op \in StepOps /\ lastOp'.eff) =>
          LET r == gdHistory'[Len(gdHistory')]
              startA == IF Len(gdHistory) > 0 THEN manualA
                        ELSE ParseFloatRaw(initialA)
          IN  /\ dataPoints' = dataPoints
              /\ stepDetails'[1].currentA = startA
              /\ r.a = Round4(startA)
              /\ r.mse = Round4(CalculateMSE(startA, dataPoints))
              /\ r.gradient =
                     Round4(CalculateGradientDetails(startA, dataPoints).finalGradient)
        ]_vars

\* a step whose start slope has more than 4 decimals: the stored a differs
\* from it and does not reproduce the stored mse
C18_Witness ==
    /\ lastOp.op \in StepOps /\ lastOp.eff
    /\ gdHistory[Len(gdHistory)].a # stepDetails[1].currentA
    /\ Round4(CalculateMSE(gdHistory[Len(gdHistory)].a, dataPoints))
           # gdHistory[Len(gdHistory)].mse

\* C19: in every reachable state currentStep is 0 when the history is empty
\* and the number of records minus one otherwise, and never exceeds
\* iterations.
C19_CurrentStepIsLastIndex ==
    /\ Len(gdHistory) = 0 => currentStep = 0
    /\ Len(gdHistory) > 0 => currentStep = Len(gdHistory) - 1
    /\ currentStep <= iterations

\* the run switched on in the terminal state
C19_Witness ==
    /\ lastOp.op = "toggle" /\ isAnimating
    /\ Len(gdHistory) = iterations + 1
    /\ currentStep = iterations

\* C20: the step detail is absent exactly when the history is empty, and
\* otherwise its currentA rounds to the last record's a and its
\* finalGradient rounds to the last record's gradient.
C20_StepDetailDescribesLastRecord ==
    /\ (stepDetails = <<>>) <=> (Len(gdHistory) = 0)
    /\ Len(gdHistory) > 0 =>
          /\ Round4(stepDetails[1].currentA) = gdHistory[Len(gdHistory)].a
          /\ Round4(stepDetails[1].finalGradient) = gdHistory[Len(gdHistory)].gradient

\* the slider moved after a step: the current slope no longer follows from
\* the detail, which still describes the last record
C20_Witness ==
    /\ lastOp.op = "override"
    /\ Len(gdHistory) > 1
    /\ manualA # LastStepSlope
    /\ Round4(stepDetails[1].currentA) = gdHistory[Len(gdHistory)].a

\* C21: a timer is pending only while isAnimating holds, and whenever
\* isAnimating holds and the history has fewer than iterations + 1 records a
\* timer is pending.
C21_TimerPendingIffRunning ==
    /\ timers # {} => isAnimating
    /\ (isAnimating /\ Len(gdHistory) < iterations + 1) => timers # {}

\* a committing tick one record before the terminal state has scheduled the
\* next tick
C21_Witness ==
    /\ lastOp.op = "tick" /\ lastOp.eff
    /\ isAnimating
    /\ Len(gdHistory) = iterations
    /\ \E t \in timers : t.closure = Closure

====
